---- MODULE Spec2Model ----
(***************************************************************************)
(* Model of the LibreOffice convert route of gotenberg                     *)
(* (pkg/modules/libreoffice/routes.go, convertRoute).                      *)
(*                                                                         *)
(* One handler invocation is a record of the handler's local variables,    *)
(* its position (pc), the state of its *api.Context (generated paths,      *)
(* registered output paths), the log of the collaborator calls it made and *)
(* the value it returned.  The variable ctxs maps every request in flight  *)
(* to that record.  Each collaborator call is one step whose result is     *)
(* chosen nondeterministically among the errors the collaborator may       *)
(* return.                                                                 *)
(***************************************************************************)
EXTENDS Integers, Sequences, FiniteSets, TLC

VARIABLES ctxs

vars == <<ctxs>>

\* ------------------------------------------------------------------ bounds
MaxDocs == 3
\* documents per request when two requests run concurrently
MaxConcDocs == 2

\* ------------------------------------------------------------ value domains
PdfaValues == {"", "PDF/A-2b"}
PageRangesValues == {"", "1-2"}
ImportFilterValues == {"", "writer8"}
ImportOptionsValues == {"", "44,34,76"}

Nil == {}
OtherErr == {"error"}
LibreOfficeErrs ==
    {OtherErr \cup S : S \in SUBSET {"ErrInvalidPdfFormats", "ErrMalformedPageRanges"}}
EngineErrs == {OtherErr \cup S : S \in SUBSET {"ErrPdfFormatNotSupported"}}
RegistrarErrs == {OtherErr}

\* errors.Is(err, target)
ErrorsIs(err, target) == target \in err

NoPath == [id |-> 0, ext |-> ""]
InputPath(k) == [id |-> k, ext |-> ".docx"]

zeroValued == [PdfA |-> "", PdfUa |-> FALSE]

NoOutcome == [status |-> "none", wrap |-> "", message |-> "",
              formats |-> zeroValued, ranges |-> ""]

\* return fmt.Errorf(wrap + ": %w", err)
ReturnError(wrap) ==
    [status |-> "internalError", wrap |-> wrap, message |-> "",
     formats |-> zeroValued, ranges |-> ""]

\* return api.WrapError(fmt.Errorf(wrap...), api.NewSentinelHttpError(http.StatusBadRequest, message))
ReturnBadRequest(wrap, message, formats, ranges) ==
    [status |-> "badRequest", wrap |-> wrap, message |-> message,
     formats |-> formats, ranges |-> ranges]

ReturnNil == [status |-> "ok", wrap |-> "", message |-> "",
              formats |-> zeroValued, ranges |-> ""]

\* ------------------------------------------------- state after line 37
InitCtx ==
    [pc |-> "validate",
     inputPaths |-> <<>>,
     landscape |-> FALSE,
     nativePageRanges |-> "",
     pdfa |-> "",
     pdfua |-> FALSE,
     nativePdfFormats |-> FALSE,
     htmlFormat |-> FALSE,
     merge |-> FALSE,
     importFilter |-> "",
     importOptions |-> "",
     pdfFormats |-> zeroValued,
     i |-> 0,
     outputPaths |-> <<>>,
     outputPath |-> NoPath,
     convertOutputPaths |-> <<>>,
     generated |-> <<>>,
     calls |-> <<>>,
     registered |-> <<>>,
     outcome |-> NoOutcome]

\* ctx.GeneratePath(ext): a path unique within the request
GeneratePath(s, ext) == [id |-> Len(s.generated) + 1, ext |-> ext]

\* one entry of the log of collaborator calls: the operation, its input
\* path(s), its output path, the libreofficeapi.Options (converter calls),
\* the gotenberg.PdfFormats argument (engine.Convert) and the returned error
Call(op, in, out, options, formats, err) ==
    [op |-> op, in |-> in, out |-> out, options |-> options,
     formats |-> formats, err |-> err]

NoOptions == [Landscape |-> FALSE, PageRanges |-> "", ImportFilter |-> "",
              ImportOptions |-> "", HTMLformat |-> FALSE,
              PdfFormats |-> zeroValued]

\* ------------------------------------------------- lines 39-53
\* The form data either binds every local variable and Validate returns nil,
\* or Validate returns an error and the handler returns without reading any
\* of them (they are left at their zero values here).
ValidateFormData(s, err, n, ls, npr, pa, pu, npf, html, mrg, filter, opts) ==
    IF err # Nil
    THEN [s EXCEPT !.pc = "done", !.outcome = ReturnError("validate form data")]
    ELSE [s EXCEPT !.pc = "conflicts",
                   !.inputPaths = [k \in 1..n |-> InputPath(k)],
                   !.landscape = ls,
                   !.nativePageRanges = npr,
                   !.pdfa = pa,
                   !.pdfua = pu,
                   !.nativePdfFormats = npf,
                   !.htmlFormat = html,
                   !.merge = mrg,
                   !.importFilter = filter,
                   !.importOptions = opts]

\* ------------------------------------------------- lines 55-85
\* slip: "more than one" tested as "more than two"
HtmlMergeConflict_OffByOne(s) ==
    s.htmlFormat /\ s.merge /\ Len(s.inputPaths) > 2

\* slip: the number of input documents not consulted
HtmlMergeConflict_AnyCount(s) == s.htmlFormat /\ s.merge

\* line 56
HtmlMergeConflict(s) == s.htmlFormat /\ s.merge /\ Len(s.inputPaths) > 1

\* slip: pdfua forgotten
HtmlPdfFormatsConflict_PdfaOnly(s) == s.htmlFormat /\ s.pdfa # ""

\* line 64
HtmlPdfFormatsConflict(s) == s.htmlFormat /\ (s.pdfa # "" \/ s.pdfua)

\* slip: negated flag
HtmlPageRangesConflict_Negated(s) == ~s.htmlFormat /\ s.nativePageRanges # ""

\* line 72
HtmlPageRangesConflict(s) == s.htmlFormat /\ s.nativePageRanges # ""

\* slip: the target-format rule tested before the merge rule
CheckHtmlConflicts_FormatsFirst(s) ==
    IF s.htmlFormat /\ (s.pdfa # "" \/ s.pdfua)
    THEN [s EXCEPT !.pc = "done",
                   !.outcome = ReturnBadRequest(
                       "got both 'htmlFormat' and 'nativePdfFormats' form fields",
                       "Both 'htmlFormat' and 'nativePdfFormats' form fields are provided",
                       zeroValued, "")]
    ELSE IF s.htmlFormat /\ s.merge /\ Len(s.inputPaths) > 1
    THEN [s EXCEPT !.pc = "done",
                   !.outcome = ReturnBadRequest(
                       "unable to merge multiple files with htmlFormat",
                       "Unable to merge multiple files using htmlFormat",
                       zeroValued, "")]
    ELSE IF s.htmlFormat /\ s.nativePageRanges # ""
    THEN [s EXCEPT !.pc = "done",
                   !.outcome = ReturnBadRequest(
                       "got both 'htmlFormat' and 'nativePageRanges' form fields",
                       "Both 'htmlFormat' and 'nativePageRanges' form fields are provided",
                       zeroValued, "")]
    ELSE [s EXCEPT !.pc = "convert",
                   !.pdfFormats = [PdfA |-> s.pdfa, PdfUa |-> s.pdfua],
                   !.outputPaths = [k \in 1..Len(s.inputPaths) |-> NoPath],
                   !.i = 1]

CheckHtmlConflicts(s) ==
    IF HtmlMergeConflict(s)
    THEN [s EXCEPT !.pc = "done",
                   !.outcome = ReturnBadRequest(
                       "unable to merge multiple files with htmlFormat",
                       "Unable to merge multiple files using htmlFormat",
                       zeroValued, "")]
    ELSE IF HtmlPdfFormatsConflict(s)
    THEN [s EXCEPT !.pc = "done",
                   !.outcome = ReturnBadRequest(
                       "got both 'htmlFormat' and 'nativePdfFormats' form fields",
                       "Both 'htmlFormat' and 'nativePdfFormats' form fields are provided",
                       zeroValued, "")]
    ELSE IF HtmlPageRangesConflict(s)
    THEN [s EXCEPT !.pc = "done",
                   !.outcome = ReturnBadRequest(
                       "got both 'htmlFormat' and 'nativePageRanges' form fields",
                       "Both 'htmlFormat' and 'nativePageRanges' form fields are provided",
                       zeroValued, "")]
    ELSE [s EXCEPT !.pc = "convert",
                   !.pdfFormats = [PdfA |-> s.pdfa, PdfUa |-> s.pdfua],
                   !.outputPaths = [k \in 1..Len(s.inputPaths) |-> NoPath],
                   !.i = 1]

\* ------------------------------------------------- lines 86-136
\* slip: the .pdf extension whatever the mode
OutputExtension_AlwaysPdf(s) == ".pdf"

\* lines 87-91
OutputExtension(s) == IF s.htmlFormat THEN ".html" ELSE ".pdf"

\* slip: lines 104-106 unconditional
Options_AlwaysFormats(s) ==
    [Landscape |-> s.landscape,
     PageRanges |-> s.nativePageRanges,
     ImportFilter |-> s.importFilter,
     ImportOptions |-> s.importOptions,
     HTMLformat |-> s.htmlFormat,
     PdfFormats |-> s.pdfFormats]

\* slip: lines 104-106 missing
Options_NeverFormats(s) ==
    [Landscape |-> s.landscape,
     PageRanges |-> s.nativePageRanges,
     ImportFilter |-> s.importFilter,
     ImportOptions |-> s.importOptions,
     HTMLformat |-> s.htmlFormat,
     PdfFormats |-> zeroValued]

\* lines 93-106
Options(s) ==
    [Landscape |-> s.landscape,
     PageRanges |-> s.nativePageRanges,
     ImportFilter |-> s.importFilter,
     ImportOptions |-> s.importOptions,
     HTMLformat |-> s.htmlFormat,
     PdfFormats |-> IF s.nativePdfFormats THEN s.pdfFormats ELSE zeroValued]

\* slip: the ErrMalformedPageRanges case (lines 126-131) missing
ConvertFailure_NoPageRangesCase(s, options, err) ==
    IF s.htmlFormat
    THEN ReturnError("convert to HTML")
    ELSE IF ErrorsIs(err, "ErrInvalidPdfFormats")
    THEN ReturnBadRequest("convert to PDF", "A PDF format is not supported",
                          s.pdfFormats, "")
    ELSE ReturnError("convert to PDF")

\* lines 110-112 and 115-134
ConvertFailure(s, options, err) ==
    IF s.htmlFormat
    THEN ReturnError("convert to HTML")
    ELSE IF ErrorsIs(err, "ErrInvalidPdfFormats")
    THEN ReturnBadRequest("convert to PDF", "A PDF format is not supported",
                          s.pdfFormats, "")
    ELSE IF ErrorsIs(err, "ErrMalformedPageRanges")
    THEN ReturnBadRequest("convert to PDF", "Malformed page ranges (nativePageRanges)",
                          zeroValued, options.PageRanges)
    ELSE ReturnError("convert to PDF")

\* slip: the number of PDFs not consulted
MergeApplies_SingleDocument(s) == s.merge

\* line 141
MergeApplies(s) == Len(s.outputPaths) > 1 /\ s.merge

\* slip: nativePdfFormats not consulted
NormalizationApplies_IgnoresNative(s) == s.pdfFormats # zeroValued

\* lines 151-152 and 188-189
NormalizationApplies(s) == ~s.nativePdfFormats /\ s.pdfFormats # zeroValued

\* lines 138-141 and 186-190: where the handler goes once the loop is over
AfterConversions(s) ==
    IF ~s.htmlFormat
    THEN IF MergeApplies(s)
         THEN [s EXCEPT !.pc = "merge"]
         ELSE IF NormalizationApplies(s)
         THEN [s EXCEPT !.pc = "convertEach",
                        !.convertOutputPaths =
                            [k \in 1..Len(s.outputPaths) |-> NoPath],
                        !.i = 1]
         ELSE [s EXCEPT !.pc = "addOutputPaths"]
    ELSE [s EXCEPT !.pc = "addOutputPaths"]

\* slip: the loop goes on after a failed conversion
ConvertDocument_IgnoresError(s, err) ==
    LET path == GeneratePath(s, OutputExtension(s))
        options == Options(s)
        call == Call(IF s.htmlFormat THEN "Html" ELSE "Pdf",
                     <<s.inputPaths[s.i]>>, path, options, zeroValued, err)
        s1 == [s EXCEPT !.generated = Append(@, path),
                        !.outputPaths[s.i] = path,
                        !.calls = Append(@, call)]
    IN  IF s.i < Len(s.inputPaths)
        THEN [s1 EXCEPT !.i = @ + 1]
        ELSE AfterConversions(s1)

\* one iteration of the loop of line 86
ConvertDocument(s, err) ==
    LET path == GeneratePath(s, OutputExtension(s))
        options == Options(s)
        call == Call(IF s.htmlFormat THEN "Html" ELSE "Pdf",
                     <<s.inputPaths[s.i]>>, path, options, zeroValued, err)
        s1 == [s EXCEPT !.generated = Append(@, path),
                        !.outputPaths[s.i] = path,
                        !.calls = Append(@, call)]
    IN  IF err # Nil
        THEN [s1 EXCEPT !.pc = "done",
                        !.outcome = ConvertFailure(s, options, err)]
        ELSE IF s.i < Len(s.inputPaths)
        THEN [s1 EXCEPT !.i = @ + 1]
        ELSE AfterConversions(s1)

\* slip: the error of engine.Merge is dropped
MergePdfs_IgnoresError(s, err) ==
    LET outputPath == GeneratePath(s, ".pdf")
        call == Call("Merge", s.outputPaths, outputPath, NoOptions, zeroValued, err)
        s1 == [s EXCEPT !.generated = Append(@, outputPath),
                        !.outputPath = outputPath,
                        !.calls = Append(@, call)]
    IN  IF NormalizationApplies(s1)
        THEN [s1 EXCEPT !.pc = "convertMerged"]
        ELSE [s1 EXCEPT !.pc = "addOutputPath"]

\* ------------------------------------------------- lines 142-152
MergePdfs(s, err) ==
    LET outputPath == GeneratePath(s, ".pdf")
        call == Call("Merge", s.outputPaths, outputPath, NoOptions, zeroValued, err)
        s1 == [s EXCEPT !.generated = Append(@, outputPath),
                        !.outputPath = outputPath,
                        !.calls = Append(@, call)]
    IN  IF err # Nil
        THEN [s1 EXCEPT !.pc = "done", !.outcome = ReturnError("merge PDFs")]
        ELSE IF NormalizationApplies(s1)
        THEN [s1 EXCEPT !.pc = "convertMerged"]
        ELSE [s1 EXCEPT !.pc = "addOutputPath"]

\* lines 157-169 and 197-209
ConvertPdfFailure(s, err) ==
    IF ErrorsIs(err, "ErrPdfFormatNotSupported")
    THEN ReturnBadRequest("convert PDF",
                          "At least one PDF engine does not handle one of the PDF format",
                          s.pdfFormats, "")
    ELSE ReturnError("convert PDF")

\* ------------------------------------------------- lines 153-173
\* slip: the first document's PDF is normalized instead of the merged one
MergedConvertInputPath_FirstDocument(s) == s.outputPaths[1]

\* line 153
MergedConvertInputPath(s) == s.outputPath

\* slip: the ErrPdfFormatNotSupported case (lines 158-166) missing on the
\* merge path
ConvertMergedPdf_OpaqueFailure(s, err) ==
    LET convertInputPath == MergedConvertInputPath(s)
        convertOutputPath == GeneratePath(s, ".pdf")
        call == Call("Convert", <<convertInputPath>>, convertOutputPath,
                     NoOptions, s.pdfFormats, err)
        s1 == [s EXCEPT !.generated = Append(@, convertOutputPath),
                        !.calls = Append(@, call)]
    IN  IF err # Nil
        THEN [s1 EXCEPT !.pc = "done", !.outcome = ReturnError("convert PDF")]
        ELSE [s1 EXCEPT !.outputPath = convertOutputPath,
                        !.pc = "addOutputPath"]

ConvertMergedPdf(s, err) ==
    LET convertInputPath == MergedConvertInputPath(s)
        convertOutputPath == GeneratePath(s, ".pdf")
        call == Call("Convert", <<convertInputPath>>, convertOutputPath,
                     NoOptions, s.pdfFormats, err)
        s1 == [s EXCEPT !.generated = Append(@, convertOutputPath),
                        !.calls = Append(@, call)]
    IN  IF err # Nil
        THEN [s1 EXCEPT !.pc = "done", !.outcome = ConvertPdfFailure(s, err)]
        ELSE [s1 EXCEPT !.outputPath = convertOutputPath,
                        !.pc = "addOutputPath"]

\* ------------------------------------------------- lines 192-215
\* slip: a failed normalization skips the document instead of returning
ConvertEachPdf_IgnoresError(s, err) ==
    LET convertInputPath == s.outputPaths[s.i]
        path == GeneratePath(s, ".pdf")
        call == Call("Convert", <<convertInputPath>>, path,
                     NoOptions, s.pdfFormats, err)
        s1 == [s EXCEPT !.generated = Append(@, path),
                        !.convertOutputPaths[s.i] = path,
                        !.calls = Append(@, call)]
    IN  IF s.i < Len(s.outputPaths)
        THEN [s1 EXCEPT !.i = @ + 1]
        ELSE [s1 EXCEPT !.outputPaths = s1.convertOutputPaths,
                        !.pc = "addOutputPaths"]

\* slip: line 214 missing, the converted paths never replace outputPaths
ConvertEachPdf_KeepsOutputPaths(s, err) ==
    LET convertInputPath == s.outputPaths[s.i]
        path == GeneratePath(s, ".pdf")
        call == Call("Convert", <<convertInputPath>>, path,
                     NoOptions, s.pdfFormats, err)
        s1 == [s EXCEPT !.generated = Append(@, path),
                        !.convertOutputPaths[s.i] = path,
                        !.calls = Append(@, call)]
    IN  IF err # Nil
        THEN [s1 EXCEPT !.pc = "done", !.outcome = ConvertPdfFailure(s, err)]
        ELSE IF s.i < Len(s.outputPaths)
        THEN [s1 EXCEPT !.i = @ + 1]
        ELSE [s1 EXCEPT !.pc = "addOutputPaths"]

\* slip: every iteration normalizes the first PDF
ConvertEachPdf_AlwaysFirst(s, err) ==
    LET convertInputPath == s.outputPaths[1]
        path == GeneratePath(s, ".pdf")
        call == Call("Convert", <<convertInputPath>>, path,
                     NoOptions, s.pdfFormats, err)
        s1 == [s EXCEPT !.generated = Append(@, path),
                        !.convertOutputPaths[s.i] = path,
                        !.calls = Append(@, call)]
    IN  IF err # Nil
        THEN [s1 EXCEPT !.pc = "done", !.outcome = ConvertPdfFailure(s, err)]
        ELSE IF s.i < Len(s.outputPaths)
        THEN [s1 EXCEPT !.i = @ + 1]
        ELSE [s1 EXCEPT !.outputPaths = s1.convertOutputPaths,
                        !.pc = "addOutputPaths"]

\* one iteration of the loop of line 192; line 214 after the last one
ConvertEachPdf(s, err) ==
    LET convertInputPath == s.outputPaths[s.i]
        path == GeneratePath(s, ".pdf")
        call == Call("Convert", <<convertInputPath>>, path,
                     NoOptions, s.pdfFormats, err)
        s1 == [s EXCEPT !.generated = Append(@, path),
                        !.convertOutputPaths[s.i] = path,
                        !.calls = Append(@, call)]
    IN  IF err # Nil
        THEN [s1 EXCEPT !.pc = "done", !.outcome = ConvertPdfFailure(s, err)]
        ELSE IF s.i < Len(s.outputPaths)
        THEN [s1 EXCEPT !.i = @ + 1]
        ELSE [s1 EXCEPT !.outputPaths = s1.convertOutputPaths,
                        !.pc = "addOutputPaths"]

\* ------------------------------------------------- registrar
\* ctx.AddOutputPaths(paths...): the paths become the request's deliverables
\* unless the call fails
Register(s, op, paths, err) ==
    [s EXCEPT !.calls = Append(@, Call(op, paths, NoPath, NoOptions, zeroValued, err)),
              !.registered = IF err = Nil THEN @ \o paths ELSE @]

\* slip: the per-document PDFs are registered along with the merged one
AddOutputPath_WithDocuments(s, err) ==
    LET s1 == Register(s, "AddOutputPaths", Append(s.outputPaths, s.outputPath), err)
    IN  IF err # Nil
        THEN [s1 EXCEPT !.pc = "done", !.outcome = ReturnError("add output path")]
        ELSE [s1 EXCEPT !.pc = "done", !.outcome = ReturnNil]

\* lines 178-183
AddOutputPath(s, err) ==
    LET s1 == Register(s, "AddOutputPaths", <<s.outputPath>>, err)
    IN  IF err # Nil
        THEN [s1 EXCEPT !.pc = "done", !.outcome = ReturnError("add output path")]
        ELSE [s1 EXCEPT !.pc = "done", !.outcome = ReturnNil]

\* lines 221-226
AddOutputPaths(s, err) ==
    LET s1 == Register(s, "AddOutputPaths", s.outputPaths, err)
    IN  IF err # Nil
        THEN [s1 EXCEPT !.pc = "done", !.outcome = ReturnError("add output paths")]
        ELSE [s1 EXCEPT !.pc = "done", !.outcome = ReturnNil]

\* ------------------------------------------------------------- actions
Requests == DOMAIN ctxs

Init == ctxs = [r \in {1} |-> InitCtx]

Validate ==
    \E r \in Requests :
        /\ ctxs[r].pc = "validate"
        /\ \E err \in {Nil, OtherErr}, n \in 1..MaxDocs, ls \in BOOLEAN,
              npr \in PageRangesValues, pa \in PdfaValues, pu \in BOOLEAN,
              npf \in BOOLEAN, html \in BOOLEAN, mrg \in BOOLEAN,
              filter \in ImportFilterValues, opts \in ImportOptionsValues :
              ctxs' = [ctxs EXCEPT ![r] =
                  ValidateFormData(@, err, n, ls, npr, pa, pu, npf, html, mrg,
                                   filter, opts)]

Conflicts ==
    \E r \in Requests :
        /\ ctxs[r].pc = "conflicts"
        /\ ctxs' = [ctxs EXCEPT ![r] = CheckHtmlConflicts(@)]

\* slip: outputPaths declared in convertRoute, outside the Handler closure,
\* hence one slice shared by every invocation of the handler
Convert_SharedOutputPaths ==
    \E r \in Requests :
        /\ ctxs[r].pc = "convert"
        /\ \E err \in {Nil} \cup LibreOfficeErrs :
              LET x == ConvertDocument(ctxs[r], err)
              IN  ctxs' = [q \in Requests |->
                              IF q = r THEN x
                              ELSE [ctxs[q] EXCEPT !.outputPaths = x.outputPaths]]

Convert ==
    \E r \in Requests :
        /\ ctxs[r].pc = "convert"
        /\ \E err \in {Nil} \cup LibreOfficeErrs :
              ctxs' = [ctxs EXCEPT ![r] = ConvertDocument(@, err)]

Merge ==
    \E r \in Requests :
        /\ ctxs[r].pc = "merge"
        /\ \E err \in {Nil} \cup EngineErrs :
              ctxs' = [ctxs EXCEPT ![r] = MergePdfs(@, err)]

ConvertMerged ==
    \E r \in Requests :
        /\ ctxs[r].pc = "convertMerged"
        /\ \E err \in {Nil} \cup EngineErrs :
              ctxs' = [ctxs EXCEPT ![r] = ConvertMergedPdf(@, err)]

ConvertEach ==
    \E r \in Requests :
        /\ ctxs[r].pc = "convertEach"
        /\ \E err \in {Nil} \cup EngineErrs :
              ctxs' = [ctxs EXCEPT ![r] = ConvertEachPdf(@, err)]

RegisterMerged ==
    \E r \in Requests :
        /\ ctxs[r].pc = "addOutputPath"
        /\ \E err \in {Nil} \cup RegistrarErrs :
              ctxs' = [ctxs EXCEPT ![r] = AddOutputPath(@, err)]

RegisterAll ==
    \E r \in Requests :
        /\ ctxs[r].pc = "addOutputPaths"
        /\ \E err \in {Nil} \cup RegistrarErrs :
              ctxs' = [ctxs EXCEPT ![r] = AddOutputPaths(@, err)]

Next ==
    \/ Validate
    \/ Conflicts
    \/ Convert
    \/ Merge
    \/ ConvertMerged
    \/ ConvertEach
    \/ RegisterMerged
    \/ RegisterAll

Spec == Init /\ [][Next]_vars

\* ------------------------------------------- two concurrent requests
\* The route's Handler is invoked once per request, each invocation with its
\* own *api.Context and its own local variables (lines 22-37); the steps of
\* two invocations interleave freely.
InitConc == ctxs = [r \in {1, 2} |-> InitCtx]

\* lines 39-53, the form fields drawn from smaller sets
ValidateConc ==
    \E r \in Requests :
        /\ ctxs[r].pc = "validate"
        /\ \E err \in {Nil, OtherErr}, n \in 1..MaxConcDocs,
              pa \in PdfaValues, npf \in BOOLEAN, html \in BOOLEAN,
              mrg \in BOOLEAN :
              ctxs' = [ctxs EXCEPT ![r] =
                  ValidateFormData(@, err, n, FALSE, "", pa, FALSE, npf, html,
                                   mrg, "", "")]

NextConc ==
    \/ ValidateConc
    \/ Conflicts
    \/ Convert
    \/ Merge
    \/ ConvertMerged
    \/ ConvertEach
    \/ RegisterMerged
    \/ RegisterAll

SpecConc == InitConc /\ [][NextConc]_vars

\* =================================================================
\* Properties
\* =================================================================
\* indices, in the request's call log, of the calls of the given operations
CallsOf(s, ops) == {k \in 1..Len(s.calls) : s.calls[k].op \in ops}
ConverterCalls(s) == CallsOf(s, {"Pdf", "Html"})
MergeCalls(s) == CallsOf(s, {"Merge"})
NormalizeCalls(s) == CallsOf(s, {"Convert"})
RegistrarCalls(s) == CallsOf(s, {"AddOutputPaths"})
FailedCalls(s) == {k \in 1..Len(s.calls) : s.calls[k].err # Nil}
ConverterOutputs(s) == {s.calls[k].out : k \in ConverterCalls(s)}
MergeOutputs(s) == {s.calls[k].out : k \in MergeCalls(s)}
NormalizeOutputs(s) == {s.calls[k].out : k \in NormalizeCalls(s)}
\* the form data was bound (line 50 returned nil)
Bound(s) == s.pc # "validate" /\ s.inputPaths # <<>>
Succeeded(s) == s.pc = "done" /\ s.outcome.status = "ok"
\* the request asks for a merge of several documents
MergeRequested(s) == s.merge /\ Len(s.inputPaths) > 1
\* the request defers a non-empty target format to the PDF engine
NormalizationRequested(s) == ~s.nativePdfFormats /\ (s.pdfa # "" \/ s.pdfua)
\* the k-th smallest element of a set of indices
RECURSIVE Nth(_, _)
Nth(S, k) ==
    LET m == CHOOSE x \in S : \A y \in S : x <= y
    IN  IF k = 1 THEN m ELSE Nth(S \ {m}, k - 1)

\* C1: when Merge is called, every Normalize (engine.Convert) call comes
\* after the Merge call, which returned nil, and takes the Merge output as
\* its input, never a per-document conversion output; no request normalizes
\* both a merged PDF and per-document PDFs.
C1_NormalizeAfterMerge ==
    \A r \in Requests :
        LET s == ctxs[r]
        IN  /\ \A m \in MergeCalls(s) : \A k \in NormalizeCalls(s) :
                  /\ m < k
                  /\ s.calls[m].err = Nil
                  /\ s.calls[k].in = <<s.calls[m].out>>
                  /\ s.calls[k].in[1] \notin ConverterOutputs(s)
            /\ ~ \E k1, k2 \in NormalizeCalls(s) :
                  /\ s.calls[k1].in[1] \in MergeOutputs(s)
                  /\ s.calls[k2].in[1] \in ConverterOutputs(s)

C1_Witness ==
    \E r \in Requests :
        LET s == ctxs[r]
        IN  /\ Succeeded(s)
            /\ Len(s.inputPaths) >= 2
            /\ MergeCalls(s) # {}
            /\ NormalizeCalls(s) # {}

\* C2: conversions happen one at a time in input order, each after the
\* previous one returned nil; after a failed conversion there is no further
\* conversion, no Merge, no Normalize and no registrar call, and nothing is
\* registered.
C2_ConversionFailFast ==
    \A r \in Requests :
        LET s == ctxs[r]
            n == Cardinality(ConverterCalls(s))
        IN  /\ n <= Len(s.inputPaths)
            /\ ConverterCalls(s) = 1..n
            /\ \A k \in 1..n :
                  /\ s.calls[k].in = <<s.inputPaths[k]>>
                  /\ k > 1 => s.calls[k - 1].err = Nil
            /\ \A k \in ConverterCalls(s) :
                  s.calls[k].err # Nil =>
                      /\ Len(s.calls) = k
                      /\ MergeCalls(s) = {}
                      /\ NormalizeCalls(s) = {}
                      /\ RegistrarCalls(s) = {}
                      /\ s.registered = <<>>
                      /\ s.pc = "done"
                      /\ s.outcome.status \in {"badRequest", "internalError"}

C2_Witness ==
    \E r \in Requests :
        LET s == ctxs[r]
        IN  /\ s.pc = "done"
            /\ Len(s.inputPaths) = 3
            /\ Len(s.calls) = 2
            /\ s.calls[1].err = Nil
            /\ s.calls[2].op = "Pdf"
            /\ s.calls[2].err # Nil
            /\ s.merge
            /\ NormalizationRequested(s)

\* C3: a failed step is the last thing the request does: no collaborator is
\* called and no path is allocated after it, and nothing is registered; the
\* registrar is called only when all documents were converted and the
\* applicable merge and normalizations all returned nil.
C3_FailFastNoPartialSet ==
    \A r \in Requests :
        LET s == ctxs[r]
        IN  /\ \A k \in FailedCalls(s) :
                  /\ k = Len(s.calls)
                  /\ s.pc = "done"
                  /\ s.outcome.status \in {"badRequest", "internalError"}
                  /\ s.registered = <<>>
                  /\ s.calls[k].op # "AddOutputPaths" =>
                        s.generated[Len(s.generated)] = s.calls[k].out
            /\ s.outcome.status \in {"badRequest", "internalError"} =>
                  /\ s.pc = "done"
                  /\ s.registered = <<>>
                  /\ FailedCalls(s) = {} => s.calls = <<>> /\ s.generated = <<>>
            /\ \A k \in RegistrarCalls(s) :
                  /\ k = Len(s.calls)
                  /\ \A j \in 1..(k - 1) : s.calls[j].err = Nil
                  /\ Cardinality(ConverterCalls(s)) = Len(s.inputPaths)
                  /\ (~s.htmlFormat /\ MergeRequested(s)) =>
                        Cardinality(MergeCalls(s)) = 1
                  /\ (~s.htmlFormat /\ NormalizationRequested(s)) =>
                        Cardinality(NormalizeCalls(s)) =
                            IF MergeRequested(s) THEN 1 ELSE Len(s.inputPaths)
            /\ s.registered # <<>> => Succeeded(s)

C3_Witness ==
    \E r \in Requests :
        LET s == ctxs[r]
        IN  /\ s.pc = "done"
            /\ Len(s.inputPaths) = 3
            /\ Cardinality(NormalizeCalls(s)) = 2
            /\ s.calls[Len(s.calls)].op = "Convert"
            /\ s.calls[Len(s.calls)].err # Nil
            /\ s.registered = <<>>

\* C4: a request with htmlFormat, merge and more than one input document
\* ends with a bad request, without any path allocation or collaborator call.
C4_HtmlMergeRejected ==
    \A r \in Requests :
        LET s == ctxs[r]
        IN  (Bound(s) /\ s.htmlFormat /\ s.merge /\ Len(s.inputPaths) > 1) =>
                /\ s.calls = <<>>
                /\ s.generated = <<>>
                /\ s.registered = <<>>
                /\ s.pc \in {"conflicts", "done"}
                /\ s.pc = "done" => s.outcome.status = "badRequest"

C4_Witness ==
    \E r \in Requests :
        LET s == ctxs[r]
        IN  /\ s.pc = "done"
            /\ s.htmlFormat /\ s.merge /\ Len(s.inputPaths) = 2
            /\ s.pdfa = "" /\ ~s.pdfua /\ s.nativePageRanges = ""
            /\ s.outcome.status = "badRequest"

\* C5: a request with htmlFormat and a non-empty target format (pdfa or
\* pdfua) ends with a bad request, without any collaborator call, whatever
\* the number of inputs, merge and nativePdfFormats.
C5_HtmlPdfFormatsRejected ==
    \A r \in Requests :
        LET s == ctxs[r]
        IN  (Bound(s) /\ s.htmlFormat /\ (s.pdfa # "" \/ s.pdfua)) =>
                /\ s.calls = <<>>
                /\ s.generated = <<>>
                /\ s.registered = <<>>
                /\ s.pc \in {"conflicts", "done"}
                /\ s.pc = "done" => s.outcome.status = "badRequest"

C5_Witness ==
    \E r \in Requests :
        LET s == ctxs[r]
        IN  /\ s.pc = "done"
            /\ s.htmlFormat /\ s.pdfa = "" /\ s.pdfua
            /\ ~s.merge /\ s.nativePageRanges = ""
            /\ s.outcome.status = "badRequest"

\* C6: a request with htmlFormat and non-empty nativePageRanges ends with a
\* bad request, without any collaborator call.
C6_HtmlPageRangesRejected ==
    \A r \in Requests :
        LET s == ctxs[r]
        IN  (Bound(s) /\ s.htmlFormat /\ s.nativePageRanges # "") =>
                /\ s.calls = <<>>
                /\ s.generated = <<>>
                /\ s.registered = <<>>
                /\ s.pc \in {"conflicts", "done"}
                /\ s.pc = "done" => s.outcome.status = "badRequest"

C6_Witness ==
    \E r \in Requests :
        LET s == ctxs[r]
        IN  /\ s.pc = "done"
            /\ s.htmlFormat /\ s.nativePageRanges # ""
            /\ s.pdfa = "" /\ ~s.pdfua /\ ~s.merge
            /\ s.outcome.status = "badRequest"

MergeReason == "Unable to merge multiple files using htmlFormat"
PdfFormatsReason == "Both 'htmlFormat' and 'nativePdfFormats' form fields are provided"
PageRangesReason == "Both 'htmlFormat' and 'nativePageRanges' form fields are provided"

\* C7: the reported reason is that of the first violated rule in the order
\* merge, target format, page ranges.
C7_FirstViolationWins ==
    \A r \in Requests :
        LET s == ctxs[r]
            rule1 == s.htmlFormat /\ s.merge /\ Len(s.inputPaths) > 1
            rule2 == s.htmlFormat /\ (s.pdfa # "" \/ s.pdfua)
            rule3 == s.htmlFormat /\ s.nativePageRanges # ""
        IN  (Bound(s) /\ s.pc = "done") =>
                /\ rule1 => s.outcome.message = MergeReason
                /\ (~rule1 /\ rule2) => s.outcome.message = PdfFormatsReason
                /\ (~rule1 /\ ~rule2 /\ rule3) =>
                      s.outcome.message = PageRangesReason

C7_Witness ==
    \E r \in Requests :
        LET s == ctxs[r]
        IN  /\ s.pc = "done"
            /\ s.htmlFormat /\ ~s.merge
            /\ s.pdfa # "" /\ s.nativePageRanges # ""
            /\ s.outcome.message = PdfFormatsReason

\* the final artifact p is derived from the input document in: it is the
\* output of the conversion of in, or the output of the normalization of it
DerivedFrom(s, p, in) ==
    \E k \in ConverterCalls(s) :
        /\ s.calls[k].in = <<in>>
        /\ \/ p = s.calls[k].out
           \/ \E j \in NormalizeCalls(s) :
                 s.calls[j].in = <<s.calls[k].out>> /\ p = s.calls[j].out

\* C8: on success the registered set has one entry if Merge was called and
\* otherwise one entry per input document, entry i derived from document i.
C8_RegisteredCount ==
    \A r \in Requests :
        LET s == ctxs[r]
            N == Len(s.inputPaths)
        IN  Succeeded(s) =>
                /\ IF MergeCalls(s) # {}
                   THEN Len(s.registered) = 1
                   ELSE /\ Len(s.registered) = N
                        /\ \A i \in 1..N :
                              DerivedFrom(s, s.registered[i], s.inputPaths[i])
                /\ (~s.htmlFormat /\ N > 1 /\ s.merge) => Len(s.registered) = 1
                /\ (~s.htmlFormat /\ ~s.merge) => Len(s.registered) = N
                /\ s.calls[Len(s.calls)].in = s.registered

C8_Witness ==
    \E r \in Requests :
        LET s == ctxs[r]
        IN  /\ Succeeded(s)
            /\ Len(s.inputPaths) = 3
            /\ MergeCalls(s) # {}
            /\ Len(s.registered) = 1

\* C9: Normalize is called only with htmlFormat false, nativePdfFormats false
\* and a non-empty target format; a successful request satisfying the three
\* conditions calls it once if Merge was called and N times otherwise.
C9_NormalizeOnlyWhenDeferred ==
    \A r \in Requests :
        LET s == ctxs[r]
            applies == /\ ~s.htmlFormat
                       /\ ~s.nativePdfFormats
                       /\ (s.pdfa # "" \/ s.pdfua)
        IN  /\ NormalizeCalls(s) # {} => applies
            /\ (Succeeded(s) /\ applies) =>
                  Cardinality(NormalizeCalls(s)) =
                      IF MergeCalls(s) # {} THEN 1 ELSE Len(s.inputPaths)

C9_Witness ==
    \E r \in Requests :
        LET s == ctxs[r]
        IN  /\ Succeeded(s)
            /\ s.nativePdfFormats /\ s.pdfa # "" /\ s.pdfua /\ s.merge
            /\ Len(s.inputPaths) = 2
            /\ NormalizeCalls(s) = {}

\* C10: without merge, the documents' conversion outputs are normalized one
\* by one in input order, each into a fresh path, and exactly the N
\* normalization outputs are registered, in order; with merge, the
\* normalization output is registered, not the merge output.
C10_NormalizedPathsRegistered ==
    \A r \in Requests :
        LET s == ctxs[r]
            N == Len(s.inputPaths)
            conv == ConverterCalls(s)
            norm == NormalizeCalls(s)
        IN  (Succeeded(s) /\ ~s.htmlFormat /\ NormalizationRequested(s)) =>
                IF MergeCalls(s) = {}
                THEN /\ Cardinality(norm) = N
                     /\ \A i \in 1..N :
                           LET c == s.calls[Nth(conv, i)]
                               n == s.calls[Nth(norm, i)]
                           IN  /\ c.in = <<s.inputPaths[i]>>
                               /\ n.in = <<c.out>>
                               /\ \A k \in 1..(Nth(norm, i) - 1) :
                                     /\ s.calls[k].out # n.out
                                     /\ \A q \in 1..Len(s.calls[k].in) :
                                           s.calls[k].in[q] # n.out
                               /\ s.registered[i] = n.out
                     /\ Len(s.registered) = N
                     /\ \A i \in 1..N : s.registered[i] \notin ConverterOutputs(s)
                ELSE /\ Cardinality(norm) = 1
                     /\ s.registered = <<s.calls[Nth(norm, 1)].out>>
                     /\ s.registered[1] \notin MergeOutputs(s)
                     /\ s.registered[1] \notin ConverterOutputs(s)

C10_Witness ==
    \E r \in Requests :
        LET s == ctxs[r]
        IN  /\ Succeeded(s)
            /\ ~s.merge
            /\ Len(s.inputPaths) = 3
            /\ Cardinality(NormalizeCalls(s)) = 3

\* the target format the request asks for (pdfa, pdfua form fields)
RequestedFormats(s) == [PdfA |-> s.pdfa, PdfUa |-> s.pdfua]

\* C11: Merge is called if and only if the request is in PDF mode, has more
\* than one document and merge set, and all N conversions returned nil; it is
\* called once, right after the last conversion, on the N conversion outputs
\* in input order, with a fresh output path.
C11_MergeExactlyWhenRequested ==
    \A r \in Requests :
        LET s == ctxs[r]
            N == Len(s.inputPaths)
            converted == /\ Cardinality(ConverterCalls(s)) = N
                         /\ \A k \in ConverterCalls(s) : s.calls[k].err = Nil
        IN  /\ \A m \in MergeCalls(s) :
                  /\ ~s.htmlFormat /\ N > 1 /\ s.merge /\ converted
                  /\ MergeCalls(s) = {m}
                  /\ m = N + 1
                  /\ s.calls[m].in = [i \in 1..N |-> s.calls[i].out]
                  /\ \A i \in 1..N : s.calls[i].in = <<s.inputPaths[i]>>
                  /\ \A k \in 1..(m - 1) :
                        /\ s.calls[k].out # s.calls[m].out
                        /\ s.calls[k].in # <<s.calls[m].out>>
            /\ (Bound(s) /\ ~s.htmlFormat /\ N > 1 /\ s.merge /\ converted
                    /\ s.pc # "merge") => MergeCalls(s) # {}

C11_Witness ==
    \E r \in Requests :
        LET s == ctxs[r]
        IN  /\ Len(s.inputPaths) = 3
            /\ Len(s.calls) = 4
            /\ s.calls[4].op = "Merge"

\* C12: a failed PDF conversion gives a bad request naming the requested
\* formats when the error is ErrInvalidPdfFormats, else a bad request naming
\* the page ranges when it is ErrMalformedPageRanges, else an internal
\* error; a failed HTML conversion always gives an internal error.
C12_ConverterFailureMapping ==
    \A r \in Requests :
        LET s == ctxs[r]
        IN  \A k \in ConverterCalls(s) :
                LET err == s.calls[k].err
                IN  err # Nil =>
                      IF s.calls[k].op = "Html"
                      THEN s.outcome.status = "internalError"
                      ELSE IF "ErrInvalidPdfFormats" \in err
                      THEN /\ s.outcome.status = "badRequest"
                           /\ s.outcome.formats = RequestedFormats(s)
                           /\ s.outcome.ranges = ""
                      ELSE IF "ErrMalformedPageRanges" \in err
                      THEN /\ s.outcome.status = "badRequest"
                           /\ s.outcome.ranges = s.nativePageRanges
                           /\ s.outcome.formats = zeroValued
                      ELSE s.outcome.status = "internalError"

C12_Witness ==
    \E r \in Requests :
        LET s == ctxs[r]
        IN  /\ s.pc = "done"
            /\ s.calls # <<>>
            /\ s.calls[Len(s.calls)].op = "Pdf"
            /\ s.calls[Len(s.calls)].err = {"error", "ErrMalformedPageRanges"}
            /\ s.nativePageRanges # ""
            /\ s.outcome.ranges = s.nativePageRanges

\* C13: a failed Normalize gives, on the merge path and on the per-document
\* path alike, a bad request naming the requested formats when the error is
\* ErrPdfFormatNotSupported and an internal error otherwise.
C13_NormalizeFailureMapping ==
    \A r \in Requests :
        LET s == ctxs[r]
        IN  \A k \in NormalizeCalls(s) :
                LET err == s.calls[k].err
                IN  err # Nil =>
                      /\ s.outcome.wrap = "convert PDF"
                      /\ IF "ErrPdfFormatNotSupported" \in err
                         THEN /\ s.outcome.status = "badRequest"
                              /\ s.outcome.formats = RequestedFormats(s)
                         ELSE s.outcome.status = "internalError"

C13_Witness ==
    \E r \in Requests :
        LET s == ctxs[r]
        IN  /\ s.pc = "done"
            /\ MergeCalls(s) # {}
            /\ s.calls[Len(s.calls)].op = "Convert"
            /\ "ErrPdfFormatNotSupported" \in s.calls[Len(s.calls)].err
            /\ s.outcome.status = "badRequest"

\* C14: a failed Merge ends the request with an internal error: Merge is
\* not called again, Normalize and the registrar are not called, nothing is
\* registered.
C14_MergeFailureIsInternal ==
    \A r \in Requests :
        LET s == ctxs[r]
        IN  \A m \in MergeCalls(s) :
                s.calls[m].err # Nil =>
                    /\ s.pc = "done"
                    /\ s.outcome.status = "internalError"
                    /\ MergeCalls(s) = {m}
                    /\ NormalizeCalls(s) = {}
                    /\ RegistrarCalls(s) = {}
                    /\ s.registered = <<>>

C14_Witness ==
    \E r \in Requests :
        LET s == ctxs[r]
        IN  /\ s.pc = "done"
            /\ NormalizationRequested(s)
            /\ s.calls # <<>>
            /\ s.calls[Len(s.calls)].op = "Merge"
            /\ "ErrPdfFormatNotSupported" \in s.calls[Len(s.calls)].err

\* C15: no call is repeated: two converter calls never take the same
\* document, two Normalize calls never take the same artifact, Merge and the
\* registrar are called at most once.
C15_NoRepeatedCall ==
    \A r \in Requests :
        LET s == ctxs[r]
        IN  /\ \A k, j \in ConverterCalls(s) :
                  k # j => s.calls[k].in # s.calls[j].in
            /\ \A k, j \in NormalizeCalls(s) :
                  k # j => s.calls[k].in # s.calls[j].in
            /\ Cardinality(MergeCalls(s)) <= 1
            /\ Cardinality(RegistrarCalls(s)) <= 1

C15_Witness ==
    \E r \in Requests :
        LET s == ctxs[r]
        IN  /\ s.pc = "done"
            /\ Len(s.inputPaths) = 3
            /\ Cardinality(ConverterCalls(s)) = 3
            /\ Cardinality(NormalizeCalls(s)) = 3
            /\ s.calls[Len(s.calls)].err # Nil

\* C16: an HTML request that passes validation never calls the PDF engine,
\* allocates only .html paths, converts with Html only and on success
\* registers the N conversion outputs in input order; a PDF request
\* allocates only .pdf paths and converts with Pdf only.
C16_HtmlNeverUsesEngine ==
    \A r \in Requests :
        LET s == ctxs[r]
            N == Len(s.inputPaths)
        IN  Bound(s) =>
                IF s.htmlFormat
                THEN /\ MergeCalls(s) = {}
                     /\ NormalizeCalls(s) = {}
                     /\ \A g \in 1..Len(s.generated) : s.generated[g].ext = ".html"
                     /\ \A k \in ConverterCalls(s) :
                           /\ s.calls[k].op = "Html"
                           /\ s.calls[k].out.ext = ".html"
                     /\ Succeeded(s) =>
                           /\ Cardinality(ConverterCalls(s)) = N
                           /\ s.registered = [i \in 1..N |-> s.calls[i].out]
                           /\ \A i \in 1..N : s.calls[i].in = <<s.inputPaths[i]>>
                ELSE /\ \A g \in 1..Len(s.generated) : s.generated[g].ext = ".pdf"
                     /\ \A k \in ConverterCalls(s) :
                           /\ s.calls[k].op = "Pdf"
                           /\ s.calls[k].out.ext = ".pdf"

C16_Witness ==
    \E r \in Requests :
        LET s == ctxs[r]
        IN  /\ Succeeded(s)
            /\ s.htmlFormat
            /\ Len(s.inputPaths) = 3
            /\ Len(s.registered) = 3

\* C18: every Pdf converter call carries the requested target format when
\* nativePdfFormats is set and the empty one otherwise; in the latter case a
\* successful request with a target format hands it to Normalize.
C18_FormatsToConverterIffNative ==
    \A r \in Requests :
        LET s == ctxs[r]
        IN  /\ \A k \in CallsOf(s, {"Pdf"}) :
                  s.calls[k].options.PdfFormats =
                      IF s.nativePdfFormats THEN RequestedFormats(s) ELSE zeroValued
            /\ (Succeeded(s) /\ ~s.htmlFormat /\ ~s.nativePdfFormats
                    /\ RequestedFormats(s) # zeroValued) =>
                  /\ NormalizeCalls(s) # {}
                  /\ \A k \in NormalizeCalls(s) :
                        s.calls[k].formats = RequestedFormats(s)

C18_Witness ==
    \E r \in Requests :
        LET s == ctxs[r]
        IN  /\ Succeeded(s)
            /\ ~s.nativePdfFormats
            /\ s.pdfa # ""
            /\ Len(s.inputPaths) = 2
            /\ s.calls[1].op = "Pdf"
            /\ s.calls[1].options.PdfFormats = zeroValued

\* the request returned from the checks of lines 55-77
RejectedByValidator(s) ==
    /\ s.pc = "done"
    /\ s.outcome.status = "badRequest"
    /\ s.outcome.message \in {MergeReason, PdfFormatsReason, PageRangesReason}

\* C19: the validator rejects only requests that violate one of the three
\* HTML rules, so never a PDF request; an HTML request with one document and
\* merge set is accepted, Merge is not called and on success one .html path
\* is registered.
C19_ValidatorRejectsOnlyHtmlConflicts ==
    \A r \in Requests :
        LET s == ctxs[r]
            rule1 == s.htmlFormat /\ s.merge /\ Len(s.inputPaths) > 1
            rule2 == s.htmlFormat /\ (s.pdfa # "" \/ s.pdfua)
            rule3 == s.htmlFormat /\ s.nativePageRanges # ""
        IN  /\ RejectedByValidator(s) => (rule1 \/ rule2 \/ rule3)
            /\ (Bound(s) /\ s.pc # "conflicts" /\ ~s.htmlFormat) =>
                  /\ ~RejectedByValidator(s)
                  /\ s.pc = "done" => s.calls # <<>>
            /\ (Bound(s) /\ s.pc # "conflicts" /\ s.htmlFormat /\ s.merge
                    /\ Len(s.inputPaths) = 1 /\ ~rule2 /\ ~rule3) =>
                  /\ ~RejectedByValidator(s)
                  /\ s.pc = "done" => s.calls # <<>>
                  /\ MergeCalls(s) = {}
                  /\ Succeeded(s) =>
                        /\ Len(s.registered) = 1
                        /\ s.registered[1].ext = ".html"
                        /\ s.registered[1] = s.calls[1].out

C19_Witness ==
    \E r \in Requests :
        LET s == ctxs[r]
        IN  /\ Succeeded(s)
            /\ s.htmlFormat /\ s.merge
            /\ Len(s.inputPaths) = 1
            /\ Len(s.registered) = 1

\* C20: a non-empty target format goes to converter calls or to Normalize
\* calls, never to both; a successful PDF request with a target format hands
\* it to all N converter calls when nativePdfFormats is set and to the
\* Normalize calls otherwise; Html calls carry no target format and no page
\* ranges.
C20_FormatsHandedOnce ==
    \A r \in Requests :
        LET s == ctxs[r]
            toConverter == {k \in ConverterCalls(s) :
                               s.calls[k].options.PdfFormats # zeroValued}
            toNormalize == {k \in NormalizeCalls(s) :
                               s.calls[k].formats # zeroValued}
        IN  /\ toConverter = {} \/ toNormalize = {}
            /\ (Succeeded(s) /\ ~s.htmlFormat
                    /\ RequestedFormats(s) # zeroValued) =>
                  IF s.nativePdfFormats
                  THEN /\ toConverter = ConverterCalls(s)
                       /\ Cardinality(toConverter) = Len(s.inputPaths)
                       /\ \A k \in toConverter :
                             s.calls[k].options.PdfFormats = RequestedFormats(s)
                  ELSE /\ toNormalize = NormalizeCalls(s)
                       /\ toNormalize # {}
                       /\ \A k \in toNormalize :
                             s.calls[k].formats = RequestedFormats(s)
            /\ \A k \in CallsOf(s, {"Html"}) :
                  /\ s.calls[k].options.PdfFormats = zeroValued
                  /\ s.calls[k].options.PageRanges = ""

C20_Witness ==
    \E r \in Requests :
        LET s == ctxs[r]
        IN  /\ Succeeded(s)
            /\ s.nativePdfFormats
            /\ s.pdfua
            /\ Len(s.inputPaths) = 3
            /\ \A k \in ConverterCalls(s) :
                  s.calls[k].options.PdfFormats = RequestedFormats(s)
            /\ NormalizeCalls(s) = {}

\* one step of a handler invocation running alone, the collaborator
\* returning err
StepAlone(x, err) ==
    CASE x.pc = "convert" -> ConvertDocument(x, err)
      [] x.pc = "merge" -> MergePdfs(x, err)
      [] x.pc = "convertMerged" -> ConvertMergedPdf(x, err)
      [] x.pc = "convertEach" -> ConvertEachPdf(x, err)
      [] x.pc = "addOutputPath" -> AddOutputPath(x, err)
      [] x.pc = "addOutputPaths" -> AddOutputPaths(x, err)
      [] OTHER -> x

RECURSIVE Replay(_, _, _)
Replay(x, calls, k) ==
    IF k > Len(calls) THEN x
    ELSE Replay(StepAlone(x, calls[k].err), calls, k + 1)

\* the state of a handler invocation that runs alone on the form data of s,
\* its collaborators returning what they returned to s, as far as s went
Alone(s) ==
    LET x0 == IF s.pc = "validate" THEN InitCtx
              ELSE ValidateFormData(InitCtx,
                       IF s.outcome.wrap = "validate form data"
                       THEN OtherErr ELSE Nil,
                       Len(s.inputPaths), s.landscape, s.nativePageRanges,
                       s.pdfa, s.pdfua, s.nativePdfFormats, s.htmlFormat,
                       s.merge, s.importFilter, s.importOptions)
        x1 == IF x0.pc = "conflicts" /\ s.pc # "conflicts"
              THEN CheckHtmlConflicts(x0) ELSE x0
    IN  Replay(x1, s.calls, 1)

\* C17: under any interleaving of two requests, each request's collaborator
\* calls, registered paths and outcome (and every local variable) are those
\* of the same request running alone with the same collaborator results.
C17_RequestsIndependent ==
    \A r \in Requests :
        LET s == ctxs[r]
            a == Alone(s)
        IN  /\ s.calls = a.calls
            /\ s.registered = a.registered
            /\ s.outcome = a.outcome
            /\ s = a

C17_Witness ==
    /\ Requests = {1, 2}
    /\ ctxs[1].pc = "merge"
    /\ Len(ctxs[1].calls) = 2
    /\ ctxs[2].pc = "convertEach"
    /\ ctxs[2].i = 2
    /\ Len(ctxs[2].calls) = 3

====
